---- MODULE Spec2Model ----
(***************************************************************************)
(* disk-usage-pushbullet: the monitor loop of src/main.rs and its          *)
(* notification-throttling decision (should_push).                         *)
(*                                                                         *)
(* A usage ratio (f64 in [0,1]) is modelled as an exact multiple of        *)
(* 1/Scale: the integer r stands for the ratio r/Scale.  The f64 product   *)
(* percentage * 100.0 differs from the exact product only within one ulp   *)
(* of a whole-percent boundary; on the grid values used here the f64       *)
(* evaluation of (x * 100.0).floor() equals the exact floor.               *)
(***************************************************************************)
EXTENDS Integers, Sequences, FiniteSets

\* Grid points per whole percentage point (resolution of the ratio grid).
Grid == 10

\* The ratio 1.0.
Scale == 100 * Grid

Half == Grid \div 2

\* main.rs:96  `let mut previous_percentage = 1.0;`
InitialPrevious == Scale

\* main.rs:93  `let treshold = 0.1;`
ProgramTreshold == 10 * Grid

\* Tresholds should_push and check_disk_usage are exercised with: the
\* program's 0.10, a treshold that is not a whole percentage (0.095), and 1.0.
Tresholds == {ProgramTreshold, 9 * Grid + Half, Scale}

\* Ratios disk_usage may return: empty disk, full disk, and values around the
\* whole-percent boundaries 9% and 10% and around both small tresholds.
Ratios ==
    {0, 8 * Grid, 9 * Grid - 1, 9 * Grid, 9 * Grid + 1, 9 * Grid + Half - 2,
     9 * Grid + Half, 9 * Grid + Half + 2, 10 * Grid - 1, 10 * Grid,
     10 * Grid + 1, 11 * Grid, Scale}

\* No ratio is bound (the local `percentage` does not exist).
NoRatio == 0 - 1

VARIABLES
    pc,                   \* position in main's loop: "read", "check", "sleep"
    treshold,             \* main's `treshold`
    previous_percentage,  \* main's `previous_percentage`
    percentage,           \* the iteration's `percentage`, NoRatio if unbound
    readResult,           \* disk_usage's result this iteration: "none", "ok", "err"
    pushResult,           \* push's result this iteration: "none" (not called), "ok", "err"
    pushArg,              \* the percentage passed to push this iteration, or NoRatio
    calls,                \* calls made since (and including) the latest disk_usage call
    startPrevious,        \* previous_percentage at the top of the iteration
    lastRatio,            \* ratio of the latest completed iteration whose read succeeded
    lastPush,             \* pushResult of that iteration
    sleptBefore,          \* the latest disk_usage call was the first, or followed a sleep
    runActive,            \* the completed iterations end in a run of consecutive successful
                          \* reads below the treshold with no failed delivery
    runMin,               \* lowest integer percentage alerted in that run, or NoRatio
    runRose,              \* a reading of that run had a higher integer percentage than
                          \* the reading before it
    deliveredSinceHigh,   \* a push returned Ok since previous_percentage was last at or
                          \* above the treshold
    reads                 \* parity of the number of disk_usage calls made

vars == <<pc, treshold, previous_percentage, percentage, readResult, pushResult,
          pushArg, calls, startPrevious, lastRatio, lastPush, sleptBefore,
          runActive, runMin, runRose, deliveredSinceHigh, reads>>

Range(s) == {s[i] : i \in DOMAIN s}

\* (x * 100.0).floor()
floor_pct(x) == (x * 100) \div Scale

\* ---- mutants of should_push ------------------------------------------------
\* `>` in place of `>=` in the treshold test
should_push_gt(p, t, prev) ==
    IF p > t THEN FALSE ELSE floor_pct(p) < floor_pct(prev)

\* `<=` in place of `<` in the percentage comparison
should_push_le(p, t, prev) ==
    IF p >= t THEN FALSE ELSE floor_pct(p) <= floor_pct(prev)

\* `* 100.0` forgotten on the previous percentage
should_push_unscaled(p, t, prev) ==
    IF p >= t THEN FALSE ELSE floor_pct(p) < prev \div Scale

\* round() in place of floor()
should_push_round(p, t, prev) ==
    IF p >= t THEN FALSE
    ELSE (p * 100 + Scale \div 2) \div Scale < (prev * 100 + Scale \div 2) \div Scale

\* the ratios compared without taking whole percentages
should_push_raw(p, t, prev) ==
    IF p >= t THEN FALSE ELSE p < prev

\* fn should_push(percentage, treshold, previous_percentage) -> bool
should_push(p, t, prev) ==
    IF p >= t THEN FALSE ELSE floor_pct(p) < floor_pct(prev)

\* ---- mutant of check_disk_usage: push's error dropped instead of `?` -------
check_disk_usage_ignore_err(p, t, prev, pushOk) ==
    LET doPush == should_push(p, t, prev)
    IN  [pushed |-> doPush, arg |-> p, delivered |-> doPush /\ pushOk,
         ok |-> TRUE, val |-> p]

\* ---- mutant of check_disk_usage: push given the previous percentage ---------
check_disk_usage_previous_arg(p, t, prev, pushOk) ==
    LET doPush == should_push(p, t, prev)
    IN  [pushed |-> doPush, arg |-> prev, delivered |-> doPush /\ pushOk,
         ok |-> ~doPush \/ pushOk, val |-> p]

\* fn check_disk_usage(log, percentage, treshold, previous_percentage)
\*   -> Result<f64, String>;  pushOk is what push returns if it is called.
check_disk_usage(p, t, prev, pushOk) ==
    LET doPush == should_push(p, t, prev)
    IN  [pushed |-> doPush, arg |-> p, delivered |-> doPush /\ pushOk,
         ok |-> ~doPush \/ pushOk, val |-> p]

Init ==
    /\ pc = "read"
    /\ treshold = ProgramTreshold
    /\ previous_percentage = InitialPrevious
    /\ percentage = NoRatio
    /\ readResult = "none"
    /\ pushResult = "none"
    /\ pushArg = NoRatio
    /\ calls = <<>>
    /\ startPrevious = InitialPrevious
    /\ lastRatio = NoRatio
    /\ lastPush = "none"
    /\ sleptBefore = TRUE
    /\ runActive = FALSE
    /\ runMin = NoRatio
    /\ runRose = FALSE
    /\ deliveredSinceHigh = FALSE
    /\ reads = 0

\* The decision functions under any configured treshold.
InitAny ==
    /\ pc = "read"
    /\ treshold \in Tresholds
    /\ previous_percentage = InitialPrevious
    /\ percentage = NoRatio
    /\ readResult = "none"
    /\ pushResult = "none"
    /\ pushArg = NoRatio
    /\ calls = <<>>
    /\ startPrevious = InitialPrevious
    /\ lastRatio = NoRatio
    /\ lastPush = "none"
    /\ sleptBefore = TRUE
    /\ runActive = FALSE
    /\ runMin = NoRatio
    /\ runRose = FALSE
    /\ deliveredSinceHigh = FALSE
    /\ reads = 0

\* main.rs:102-103  disk_usage returns Ok(r)
DiskUsageOk ==
    /\ pc = "read"
    /\ \E r \in Ratios : percentage' = r
    /\ readResult' = "ok"
    /\ pushResult' = "none"
    /\ pushArg' = NoRatio
    /\ calls' = <<"disk_usage">>
    /\ startPrevious' = previous_percentage
    /\ sleptBefore' = (calls = <<>> \/ calls[Len(calls)] = "sleep")
    /\ reads' = 1 - reads
    /\ pc' = "check"
    /\ UNCHANGED <<treshold, previous_percentage, lastRatio, lastPush,
                   runActive, runMin, runRose, deliveredSinceHigh>>

\* ---- mutants of the Err arm of the read ----------------------------------
\* the error replaced by a default ratio (unwrap_or(0.0)): falls through
DiskUsageErr_fallthrough ==
    /\ pc = "read"
    /\ percentage' = 0
    /\ readResult' = "err"
    /\ pushResult' = "none"
    /\ pushArg' = NoRatio
    /\ calls' = <<"disk_usage">>
    /\ startPrevious' = previous_percentage
    /\ sleptBefore' = (calls = <<>> \/ calls[Len(calls)] = "sleep")
    /\ reads' = 1 - reads
    /\ pc' = "check"
    /\ runActive' = FALSE
    /\ runMin' = NoRatio
    /\ runRose' = FALSE
    /\ UNCHANGED <<treshold, previous_percentage, lastRatio, lastPush,
                   deliveredSinceHigh>>

\* `return` (or a panic) in place of `continue`
DiskUsageErr_exit ==
    /\ pc = "read"
    /\ percentage' = NoRatio
    /\ readResult' = "err"
    /\ pushResult' = "none"
    /\ pushArg' = NoRatio
    /\ calls' = <<"disk_usage">>
    /\ startPrevious' = previous_percentage
    /\ sleptBefore' = (calls = <<>> \/ calls[Len(calls)] = "sleep")
    /\ reads' = 1 - reads
    /\ pc' = "exit"
    /\ runActive' = FALSE
    /\ runMin' = NoRatio
    /\ runRose' = FALSE
    /\ UNCHANGED <<treshold, previous_percentage, lastRatio, lastPush,
                   deliveredSinceHigh>>

\* main.rs:104-107  disk_usage returns Err: log, `continue` (top of the loop)
DiskUsageErr ==
    /\ pc = "read"
    /\ percentage' = NoRatio
    /\ readResult' = "err"
    /\ pushResult' = "none"
    /\ pushArg' = NoRatio
    /\ calls' = <<"disk_usage">>
    /\ startPrevious' = previous_percentage
    /\ sleptBefore' = (calls = <<>> \/ calls[Len(calls)] = "sleep")
    /\ reads' = 1 - reads
    /\ pc' = "read"
    /\ runActive' = FALSE
    /\ runMin' = NoRatio
    /\ runRose' = FALSE
    /\ UNCHANGED <<treshold, previous_percentage, lastRatio, lastPush,
                   deliveredSinceHigh>>

\* main.rs:110-117  match check_disk_usage(..) { Ok(p) => previous = p, Err => log }
CheckDiskUsage ==
    /\ pc = "check"
    /\ \E pushOk \in BOOLEAN :
         LET res == check_disk_usage(percentage, treshold, previous_percentage, pushOk)
         IN  /\ previous_percentage' =
                    IF res.ok THEN res.val ELSE previous_percentage
             /\ pushResult' =
                    IF ~res.pushed THEN "none"
                    ELSE IF res.delivered THEN "ok" ELSE "err"
             /\ pushArg' = IF res.pushed THEN res.arg ELSE NoRatio
             /\ deliveredSinceHigh' =
                    IF (IF res.ok THEN res.val ELSE previous_percentage) >= treshold
                    THEN FALSE
                    ELSE deliveredSinceHigh \/ res.delivered
             /\ calls' = calls \o <<"should_push">>
                               \o (IF res.pushed THEN <<"push">> ELSE <<>>)
    /\ pc' = "sleep"
    /\ UNCHANGED <<treshold, percentage, readResult, startPrevious, lastRatio,
                   lastPush, sleptBefore, runActive, runMin, runRose, reads>>

\* main.rs:118  thread::sleep(sleep_time), then the next iteration
Sleep ==
    /\ pc = "sleep"
    /\ calls' = Append(calls, "sleep")
    /\ lastRatio' = percentage
    /\ lastPush' = pushResult
    /\ IF percentage < treshold /\ pushResult # "err"
       THEN /\ runActive' = TRUE
            /\ runMin' = IF pushResult = "ok"
                              /\ (runMin = NoRatio \/ floor_pct(percentage) < runMin)
                          THEN floor_pct(percentage) ELSE runMin
            /\ runRose' = (runRose \/ (runActive
                                          /\ floor_pct(percentage) > floor_pct(lastRatio)))
       ELSE /\ runActive' = FALSE
            /\ runMin' = NoRatio
            /\ runRose' = FALSE
    /\ pc' = "read"
    /\ UNCHANGED <<treshold, previous_percentage, percentage, readResult,
                   pushResult, pushArg, startPrevious, sleptBefore,
                   deliveredSinceHigh, reads>>

Next ==
    \/ DiskUsageOk
    \/ DiskUsageErr
    \/ CheckDiskUsage
    \/ Sleep

\* The program: treshold 0.1.
Spec == Init /\ [][Next]_vars

\* The loop under any configured treshold.
SpecAny == InitAny /\ [][Next]_vars

\* The loop's own steps are taken and collaborator calls return.
FairSpec == Init /\ [][Next]_vars /\ WF_vars(Next)

TypeOK ==
    /\ pc \in {"read", "check", "sleep"}
    /\ treshold \in Tresholds
    /\ previous_percentage \in Ratios
    /\ percentage \in Ratios \cup {NoRatio}
    /\ readResult \in {"none", "ok", "err"}
    /\ pushResult \in {"none", "ok", "err"}
    /\ pushArg \in Ratios \cup {NoRatio}
    /\ startPrevious \in Ratios
    /\ lastRatio \in Ratios \cup {NoRatio}
    /\ lastPush \in {"none", "ok", "err"}
    /\ sleptBefore \in BOOLEAN
    /\ runActive \in BOOLEAN
    /\ runMin \in (0..100) \cup {NoRatio}
    /\ runRose \in BOOLEAN
    /\ deliveredSinceHigh \in BOOLEAN
    /\ reads \in {0, 1}


\* ------------------------------------------------------------------------
\* Properties
\* ------------------------------------------------------------------------

\* floor(x * 100) stated by its defining inequalities.
WholePercent(x) == CHOOSE n \in 0..100 : n * Scale <= 100 * x /\ 100 * x < (n + 1) * Scale

Pushed == pushResult # "none"

CycleDone == pc = "sleep"

WholeTreshold == (treshold * 100) % Scale = 0

C2_FailedReadDoesNothing ==
    readResult = "err" =>
        /\ previous_percentage = startPrevious
        /\ "should_push" \notin Range(calls)
        /\ "push" \notin Range(calls)
        /\ pushResult = "none"
        /\ pushArg = NoRatio

\* A failed read while a low ratio is recorded.
C2_Witness ==
    /\ readResult = "err"
    /\ lastPush = "ok"
    /\ previous_percentage = lastRatio
    /\ previous_percentage < treshold

\* C3 (as stated): every read but the first is preceded by a wait since the
\* read before it, also when that read failed.
C3_WaitBetweenReads ==
    sleptBefore

C5_AdequateNeverAlerts ==
    /\ \A c \in Ratios, p \in Ratios :
         c >= treshold => ~should_push(c, treshold, p)
    /\ Pushed => (percentage # NoRatio /\ percentage < treshold)
    /\ "push" \in Range(calls) => percentage < treshold

\* A read exactly at the treshold, with a higher integer percentage recorded.
C5_Witness ==
    /\ CycleDone
    /\ percentage = treshold
    /\ WholePercent(percentage) < WholePercent(startPrevious)
    /\ ~Pushed

\* C6: for current < treshold, should_push is true exactly when
\* floor(current*100) < floor(previous*100).
C6_StrictWholePercentDecrease ==
    /\ \A c \in Ratios, p \in Ratios :
         c < treshold =>
           (should_push(c, treshold, p) <=> WholePercent(c) < WholePercent(p))
    /\ (CycleDone /\ percentage < treshold) =>
           (Pushed <=> WholePercent(percentage) < WholePercent(startPrevious))

\* After a delivered alert, a lower ratio within the same whole percent.
C6_Witness ==
    /\ CycleDone
    /\ lastPush = "ok"
    /\ percentage < startPrevious
    /\ WholePercent(percentage) = WholePercent(startPrevious)
    /\ ~Pushed

\* C7: should_push(current, treshold, 1.0) is true for every current <
\* treshold, and the first successful read of a run finds previous at 1.0
\* and calls the Notifier if it is below the treshold.
C7_FreshStartAlerts ==
    /\ \A c \in Ratios : c < treshold => should_push(c, treshold, InitialPrevious)
    /\ (readResult = "ok" /\ lastRatio = NoRatio) => startPrevious = InitialPrevious
    /\ (CycleDone /\ startPrevious = InitialPrevious /\ percentage < treshold) => Pushed

\* The first successful read of a run, right after a failed read, is low.
C7_Witness ==
    /\ CycleDone
    /\ lastRatio = NoRatio
    /\ ~sleptBefore
    /\ percentage < treshold
    /\ percentage >= 9 * Grid
    /\ Pushed

\* C8 (as stated): for every treshold, a successful read below the treshold
\* while previous is at or above it calls the Notifier.
C8_CrossingAlwaysAlerts ==
    (CycleDone /\ percentage < treshold /\ startPrevious >= treshold) => Pushed

\* C8 (amended): when the treshold is a whole percentage (as the program's
\* 0.10), a successful read below the treshold while previous is at or
\* above it calls the Notifier; for any other treshold it does so exactly
\* when the crossing lowers the integer percentage.
C8_CrossingAlertsOnWholePercentDrop ==
    (CycleDone /\ percentage < treshold /\ startPrevious >= treshold) =>
        /\ WholeTreshold => Pushed
        /\ Pushed <=> WholePercent(percentage) < WholePercent(startPrevious)

\* A drop below the program's treshold after the condition had cleared.
C8_Witness ==
    /\ CycleDone
    /\ treshold = ProgramTreshold
    /\ percentage < treshold
    /\ startPrevious >= treshold
    /\ startPrevious # InitialPrevious
    /\ lastPush = "none"
    /\ Pushed

\* C9 (as stated): with previous and current both below the treshold, a
\* decrease of less than 0.01 does not alert.
C9_SmallDecreaseNeverAlerts ==
    (CycleDone /\ startPrevious < treshold /\ percentage < treshold
        /\ (startPrevious - percentage) * 100 < Scale) => ~Pushed

\* C9 (amended): with previous and current both below the treshold, an
\* alert fires only when the ratio has fallen into a lower whole percentage:
\* none fires if floor(current*100) >= floor(previous*100), and one fires
\* for a decrease of less than 0.01 that crosses a whole-percent boundary.
C9_AlertOnlyOnLowerWholePercent ==
    /\ \A c \in Ratios, p \in Ratios :
         (c < treshold /\ p < treshold /\ WholePercent(c) >= WholePercent(p))
             => ~should_push(c, treshold, p)
    /\ (CycleDone /\ startPrevious < treshold /\ percentage < treshold /\ Pushed) =>
         /\ percentage < startPrevious
         /\ WholePercent(percentage) + 1 <= WholePercent(startPrevious)
    /\ (CycleDone /\ startPrevious < treshold
           /\ WholePercent(percentage) < WholePercent(startPrevious)
           /\ (startPrevious - percentage) * 100 < Scale) => Pushed

\* An alert for a decrease of less than one percentage point.
C9_Witness ==
    /\ CycleDone
    /\ startPrevious < treshold
    /\ percentage < startPrevious
    /\ (startPrevious - percentage) * 100 < Scale
    /\ Pushed

\* C10: from every state the loop eventually calls disk_usage again, also
\* after a read failure or a Notifier failure.
C10_AlwaysReadsAgain ==
    /\ (reads = 0) ~> (reads = 1)
    /\ (reads = 1) ~> (reads = 0)

\* A read failure in the iteration after a Notifier failure.
C10_Witness ==
    /\ readResult = "err"
    /\ lastPush = "err"
    /\ pc = "read"

\* The number of calls of f recorded for the iteration.
Count(f) == Cardinality({i \in DOMAIN calls : calls[i] = f})

\* C11: in every cycle the Notifier is called at most once; it is called
\* exactly when the read succeeded and should_push of the ratio just read,
\* the treshold and the previous value held at the start of the cycle is
\* true; and it is given the ratio just read.
C11_PushExactlyOnDecision ==
    /\ Count("push") <= 1
    /\ Count("push") = (IF Pushed THEN 1 ELSE 0)
    /\ Pushed => (readResult = "ok" /\ pushArg = percentage)
    /\ ~Pushed => pushArg = NoRatio
    /\ CycleDone =>
         (Pushed <=> (readResult = "ok"
                        /\ percentage < treshold
                        /\ WholePercent(percentage) < WholePercent(startPrevious)))

\* A delivered alert whose argument differs from the previous value the
\* decision was taken against, which itself was a recorded low ratio.
C11_Witness ==
    /\ CycleDone
    /\ pushResult = "ok"
    /\ pushArg = percentage
    /\ startPrevious < treshold
    /\ pushArg # startPrevious
    /\ previous_percentage = pushArg

\* A delivered alert in a cycle that continues a sustained low-space run.
InRunAlert == CycleDone /\ pushResult = "ok" /\ runActive

\* C12 (as stated): in a run of consecutive successful reads below the
\* treshold with every delivery succeeding, each alert's integer percentage
\* is strictly lower than that of every earlier alert of the run.
C12_AlertsStrictlyDecreaseInRun ==
    (InRunAlert /\ runMin # NoRatio) => WholePercent(percentage) < runMin

\* C12 (amended): in such a run each alert's integer percentage is strictly
\* lower than that of the reading before it; it is strictly lower than that
\* of every earlier alert of the run as long as no reading of the run had a
\* higher integer percentage than the reading before it.
C12_AlertsDecreaseWhileNotRising ==
    /\ InRunAlert =>
         /\ startPrevious = lastRatio
         /\ WholePercent(percentage) < WholePercent(lastRatio)
    /\ (InRunAlert /\ runMin # NoRatio /\ ~runRose) =>
         WholePercent(percentage) < runMin

\* A second alert of a run whose readings never rose.
C12_Witness ==
    /\ InRunAlert
    /\ runMin # NoRatio
    /\ ~runRose
    /\ WholePercent(percentage) < runMin

\* C13: after a Notifier failure, the next successful read that is below the
\* treshold with an integer percentage at or below that of the failed reading
\* calls the Notifier again with the new ratio; a failure leaves previous
\* above the failed reading's integer percentage, so this repeats until a
\* send succeeds.
C13_RetryUntilDelivered ==
    /\ (CycleDone /\ lastPush = "err" /\ percentage < treshold
           /\ WholePercent(percentage) <= WholePercent(lastRatio)) =>
         (Pushed /\ pushArg = percentage)
    /\ (CycleDone /\ pushResult = "err") =>
         /\ previous_percentage = startPrevious
         /\ WholePercent(percentage) < WholePercent(previous_percentage)

\* A second failure in a row, for a reading lower than the first failed one.
C13_Witness ==
    /\ CycleDone
    /\ lastPush = "err"
    /\ pushResult = "err"
    /\ WholePercent(percentage) < WholePercent(lastRatio)

\* C14: with the program's treshold 0.10, whenever the recorded previous
\* ratio is below the treshold a push has returned Ok since previous was
\* last at or above the treshold.
C14_LowPreviousWasNotified ==
    (treshold = ProgramTreshold /\ previous_percentage < treshold)
        => deliveredSinceHigh

\* A low ratio stays recorded, after its alert was delivered, in a cycle
\* whose own delivery failed.
C14_Witness ==
    /\ CycleDone
    /\ treshold = ProgramTreshold
    /\ previous_percentage < treshold
    /\ deliveredSinceHigh
    /\ pushResult = "err"

====
